---- MODULE Spec2Model ----
(***************************************************************************)
(* A model of src/app.py: the timestamp functions (shift_timestamp,        *)
(* adjust_srt), segmentation (split_audio), the per-chunk worker           *)
(* (process_chunk), the coordinator (process_audio) and the assembly of    *)
(* the final SRT text.                                                     *)
(*                                                                         *)
(* A Python str is a sequence of one-character strings.  A call that can   *)
(* raise yields a record [ok, val]: ok = FALSE stands for the exception.   *)
(* Times are Python floats in the source (seconds, with int(ms) / 1000 as  *)
(* the fraction); the model keeps them as whole milliseconds, which is     *)
(* what the float arithmetic computes for every magnitude the model        *)
(* reaches (far below 2^42 seconds, where a double still resolves 1 ms).   *)
(***************************************************************************)
EXTENDS Integers, Sequences, FiniteSets, Bags, TLC

(***************************************************************************)
(* Strings                                                                 *)
(***************************************************************************)
NL == "\n"
SP == " "

Whitespace == {SP, NL}

DigitChars == <<"0", "1", "2", "3", "4", "5", "6", "7", "8", "9">>

IsDigit(c) == \E k \in 1..10 : DigitChars[k] = c

DigitVal(c) == (CHOOSE k \in 1..10 : DigitChars[k] = c) - 1

Raised == [ok |-> FALSE, val |-> <<>>]

Returned(v) == [ok |-> TRUE, val |-> v]

\* s[a..b] as Python's s[a-1:b]; empty when b < a.
Slice(s, a, b) == IF b < a THEN <<>> ELSE SubSeq(s, a, b)

\* The positions of character c in s.
Positions(s, c) == {k \in 1..Len(s) : s[k] = c}

\* str.split(c) for a one-character separator c: the pieces between the
\* occurrences of c, empty pieces included.
RECURSIVE SplitOn(_, _)
SplitOn(s, c) ==
  IF Positions(s, c) = {} THEN <<s>>
  ELSE LET p == CHOOSE k \in Positions(s, c) : \A j \in Positions(s, c) : k <= j
       IN <<Slice(s, 1, p - 1)>> \o SplitOn(Slice(s, p + 1, Len(s)), c)

\* str.strip(): leading and trailing whitespace removed.
Strip(s) ==
  LET keep == {k \in 1..Len(s) : s[k] \notin Whitespace}
  IN IF keep = {} THEN <<>>
     ELSE LET a == CHOOSE k \in keep : \A j \in keep : k <= j
              b == CHOOSE k \in keep : \A j \in keep : k >= j
          IN SubSeq(s, a, b)

\* str.splitlines() for texts whose only line terminator is "\n": the piece
\* after a final terminator is not a line, and "" has no lines.
SplitLines(s) ==
  LET parts == SplitOn(s, NL)
  IN IF parts[Len(parts)] = <<>> THEN SubSeq(parts, 1, Len(parts) - 1) ELSE parts

\* "\n".join(lines)
RECURSIVE JoinLines(_)
JoinLines(lines) ==
  IF lines = <<>> THEN <<>>
  ELSE IF Len(lines) = 1 THEN lines[1]
  ELSE lines[1] \o <<NL>> \o JoinLines(Tail(lines))

\* The start positions of the substring "-->" in s.
ArrowAt(s) ==
  {k \in 1..(Len(s) - 2) : s[k] = "-" /\ s[k + 1] = "-" /\ s[k + 2] = ">"}

\* '-->' in line
HasArrow(s) == ArrowAt(s) # {}

\* line.split('-->'): the pieces between successive occurrences of "-->",
\* scanning from the left.
RECURSIVE SplitArrow(_)
SplitArrow(s) ==
  IF ArrowAt(s) = {} THEN <<s>>
  ELSE LET p == CHOOSE k \in ArrowAt(s) : \A j \in ArrowAt(s) : k <= j
       IN <<Slice(s, 1, p - 1)>> \o SplitArrow(Slice(s, p + 3, Len(s)))

(***************************************************************************)
(* int() and the format specs {:02} and {:03}                              *)
(***************************************************************************)
RECURSIVE DigitsVal(_)
DigitsVal(s) ==
  IF s = <<>> THEN 0 ELSE 10 * DigitsVal(SubSeq(s, 1, Len(s) - 1)) + DigitVal(s[Len(s)])

AllDigits(s) == s # <<>> /\ \A k \in 1..Len(s) : IsDigit(s[k])

\* int(s): surrounding whitespace is ignored, one leading sign is accepted,
\* the rest must be decimal digits; anything else raises ValueError.
ParseInt(s) ==
  LET t == Strip(s)
      signed == t # <<>> /\ t[1] \in {"-", "+"}
      body == IF signed THEN Tail(t) ELSE t
  IN IF ~AllDigits(body) THEN Raised
     ELSE Returned(IF signed /\ t[1] = "-" THEN 0 - DigitsVal(body) ELSE DigitsVal(body))

RECURSIVE NatDigits(_)
NatDigits(n) ==
  IF n < 10 THEN <<DigitChars[n + 1]>>
  ELSE NatDigits(n \div 10) \o <<DigitChars[(n % 10) + 1]>>

RECURSIVE ZeroPad(_, _)
ZeroPad(s, w) == IF Len(s) >= w THEN s ELSE ZeroPad(<<"0">> \o s, w)

\* f"{n:0w}": zero padded to width w, the sign counted in the width.
FormatInt(n, w) ==
  IF n >= 0 THEN ZeroPad(NatDigits(n), w)
  ELSE <<"-">> \o ZeroPad(NatDigits(0 - n), w - 1)

(***************************************************************************)
(* shift_timestamp and adjust_srt                                          *)
(***************************************************************************)
MsPerSecond == 1000

\* Mutant: the fraction is lost, as after int(new_total).
FractionMs_truncated(total_ms) == 0

\* new_ms: the fraction new_total - int(new_total), in milliseconds; int()
\* truncates towards zero, so the fraction has the sign of new_total.
FractionMs(total_ms) ==
  IF total_ms >= 0 THEN total_ms % MsPerSecond
  ELSE 0 - ((0 - total_ms) % MsPerSecond)

\* Mutant: the minutes are not reduced modulo the hour.
FormatTimestamp_nowrap(new_total_ms) ==
  LET new_h == new_total_ms \div (3600 * MsPerSecond)
      new_m == new_total_ms \div (60 * MsPerSecond)
      new_s == (new_total_ms % (60 * MsPerSecond)) \div MsPerSecond
      new_ms == FractionMs(new_total_ms)
  IN FormatInt(new_h, 2) \o <<":">> \o FormatInt(new_m, 2) \o <<":">>
       \o FormatInt(new_s, 2) \o <<",">> \o FormatInt(new_ms, 3)

\* The f-string of shift_timestamp's return, from the new total.
FormatTimestamp(new_total_ms) ==
  LET new_h == new_total_ms \div (3600 * MsPerSecond)
      new_m == (new_total_ms % (3600 * MsPerSecond)) \div (60 * MsPerSecond)
      new_s == (new_total_ms % (60 * MsPerSecond)) \div MsPerSecond
      new_ms == FractionMs(new_total_ms)
  IN FormatInt(new_h, 2) \o <<":">> \o FormatInt(new_m, 2) \o <<":">>
       \o FormatInt(new_s, 2) \o <<",">> \o FormatInt(new_ms, 3)

\* shift_timestamp(ts, offset): ts.split(':') must unpack into three pieces
\* and the third, split at ',', into two; each piece goes through int().
shift_timestamp(ts, offset) ==
  LET hms == SplitOn(ts, ":")
  IN IF Len(hms) # 3 THEN Raised
     ELSE LET s_ms == SplitOn(hms[3], ",")
          IN IF Len(s_ms) # 2 THEN Raised
             ELSE LET h == ParseInt(hms[1])
                      m == ParseInt(hms[2])
                      s == ParseInt(s_ms[1])
                      ms == ParseInt(s_ms[2])
                  IN IF ~(h.ok /\ m.ok /\ s.ok /\ ms.ok) THEN Raised
                     ELSE LET total_ms == (h.val * 3600 + m.val * 60 + s.val) * MsPerSecond
                                            + ms.val
                          IN Returned(FormatTimestamp(total_ms + offset * MsPerSecond))

\* Mutant: the range line is rebuilt without the spaces around "-->".
AdjustLine_tight(line, offset) ==
  IF HasArrow(line)
  THEN LET parts == SplitArrow(line)
           new_start == shift_timestamp(Strip(parts[1]), offset)
           new_end == shift_timestamp(Strip(parts[2]), offset)
       IN IF new_start.ok /\ new_end.ok
          THEN Returned(new_start.val \o <<"-", "-", ">">> \o new_end.val)
          ELSE Raised
  ELSE Returned(line)

\* One iteration of adjust_srt's loop: the line appended for `line`.
AdjustLine(line, offset) ==
  IF HasArrow(line)
  THEN LET parts == SplitArrow(line)
           new_start == shift_timestamp(Strip(parts[1]), offset)
           new_end == shift_timestamp(Strip(parts[2]), offset)
       IN IF new_start.ok /\ new_end.ok
          THEN Returned(new_start.val \o <<SP, "-", "-", ">", SP>> \o new_end.val)
          ELSE Raised
  ELSE Returned(line)

\* Mutant: blank lines are skipped by the loop.
adjust_srt_skipblank(srt_text, offset) ==
  LET lines == SelectSeq(SplitLines(srt_text), LAMBDA l : Strip(l) # <<>>)
      adjusted == [k \in 1..Len(lines) |-> AdjustLine(lines[k], offset)]
  IN IF \E k \in 1..Len(lines) : ~adjusted[k].ok THEN Raised
     ELSE Returned(JoinLines([k \in 1..Len(lines) |-> adjusted[k].val]))

\* Mutant: a range line that cannot be shifted is kept as it is.
adjust_srt_lenient(srt_text, offset) ==
  LET lines == SplitLines(srt_text)
      adjusted == [k \in 1..Len(lines) |-> AdjustLine(lines[k], offset)]
  IN Returned(JoinLines([k \in 1..Len(lines) |->
                           IF adjusted[k].ok THEN adjusted[k].val ELSE lines[k]]))

\* adjust_srt(srt_text, offset): every line through the loop, joined by "\n";
\* an exception of shift_timestamp on any range line leaves the function.
adjust_srt(srt_text, offset) ==
  LET lines == SplitLines(srt_text)
      adjusted == [k \in 1..Len(lines) |-> AdjustLine(lines[k], offset)]
  IN IF \E k \in 1..Len(lines) : ~adjusted[k].ok THEN Raised
     ELSE Returned(JoinLines([k \in 1..Len(lines) |-> adjusted[k].val]))

(***************************************************************************)
(* Inputs of the model                                                     *)
(***************************************************************************)
\* Jobs of up to MaxChunks chunks run with every collaborator call returning.
MaxChunks == 2

\* The large job has PoolCap + PoolExtra chunks, of which at most MaxLive
\* have a transcription call that returns; the other calls never return.
PoolExtra == 1

MaxLive == 1

\* min(8, len(chunks))
PoolCap == 8

\* chunk_length=200, the default of split_audio and the initial CHUNK_LENGTH.
DefaultChunkLength == 200

\* A second chunk length a job may be segmented with.
OtherChunkLength == 300

ChunkLengths == {DefaultChunkLength, OtherChunkLength}

TC_5s == <<"0", "0", ":", "0", "0", ":", "0", "5", ",", "0", "0", "0">>

TC_10s == <<"0", "0", ":", "0", "0", ":", "1", "0", ",", "0", "0", "0">>

Arrow == <<SP, "-", "-", ">", SP>>

\* What the revision collaborator may answer (message.content, before strip).
ContentGood == <<NL, "1", NL>> \o TC_5s \o Arrow \o TC_10s \o <<NL, "h", "i", SP, NL>>

ContentBad ==
  <<"1", NL>> \o TC_5s \o Arrow \o TC_10s \o <<NL, "h", "i", NL, NL, "2", NL>>
    \o TC_5s \o Arrow \o <<"0", "0", ":", "1", "0">> \o <<NL, "h", "i">>

ContentBlank == <<SP, NL>>

Contents == {ContentGood, ContentBad, ContentBlank}

LargeJob == 0..(PoolCap + PoolExtra - 1)

\* <<files the segmentation leaves behind, chunks whose transcription hangs>>:
\* the small jobs, every set of files with at most MaxChunks of them below the
\* first gap and any of those chunks hanging, and the job larger than the pool.
Scenarios ==
  {sc \in (SUBSET (0..MaxChunks) \ {0..MaxChunks}) \X SUBSET (0..(MaxChunks - 1)) :
     \A h \in sc[2] : (0..h) \subseteq sc[1]}
    \cup {<<LargeJob, H>> : H \in {X \in SUBSET LargeJob : Cardinality(LargeJob \ X) <= MaxLive}}

\* Every index a chunk of the model can have.
ChunkIds == LargeJob \cup (0..(MaxChunks - 1))

(***************************************************************************)
(* State                                                                   *)
(***************************************************************************)
VARIABLES
  CHUNK_LENGTH,        \* the module global
  chunk_length,        \* the chunk length the job is segmented with
  seg,                 \* the chunk files ffmpeg writes for this source
  hung,                \* chunks whose transcription call never returns
  files,               \* indices of the chunk files on storage
  pc,                  \* where process_audio and its caller are
  exc,                 \* the exception process_audio left with, or "none"
  chunks,              \* split_audio's return, as the list of indices
  max_workers,         \* the size of the pool
  stage,               \* per chunk: where its process_chunk invocation is
  cause,               \* per chunk: the call whose exception the handler caught
  revised,             \* per chunk: process_text_with_gpt's return
  offset,              \* per chunk: the local `offset`, -1 before it is set
  future,              \* per chunk: the future of its invocation
  collected,           \* the indices as_completed has yielded, in that order
  all_processed_text,  \* the list of (chunk_index, processed_text)
  sorted_texts,        \* process_audio's return
  srt_content,         \* the text handed to the download button
  transcribe_calls,    \* bag of the chunk indices transcribe_audio was called for
  revise_calls,        \* bag of the chunk indices process_text_with_gpt was called for
  codec_in,            \* arguments of a call of the timestamp functions
  codec_out            \* what the calls returned

vars ==
  <<CHUNK_LENGTH, chunk_length, seg, hung, files, pc, exc, chunks, max_workers,
    stage, cause, revised, offset, future, collected, all_processed_text,
    sorted_texts, srt_content, transcribe_calls, revise_calls, codec_in, codec_out>>

codec_vars == <<codec_in, codec_out>>

job_vars ==
  <<CHUNK_LENGTH, chunk_length, seg, hung, files, pc, exc, chunks, max_workers,
    stage, cause, revised, offset, future, collected, all_processed_text,
    sorted_texts, srt_content, transcribe_calls, revise_calls>>

Indices == {chunks[k] : k \in 1..Len(chunks)}

Pending == [state |-> "pending", result |-> <<>>]

\* The invocations that have started and not yet returned.
InFlight == {i \in DOMAIN stage : stage[i] \in {"transcribing", "revising"}}

(***************************************************************************)
(* split_audio                                                             *)
(***************************************************************************)
\* The while loop of split_audio: indices from `index` up to the first one
\* whose chunk file does not exist.
RECURSIVE ProbeFrom_skipgaps(_, _)
\* Mutant: every chunk file from `index` on, whatever indices are missing.
ProbeFrom_skipgaps(fs, index) ==
  IF \A f \in fs : f < index THEN <<>>
  ELSE IF index \in fs THEN <<index>> \o ProbeFrom_skipgaps(fs, index + 1)
       ELSE ProbeFrom_skipgaps(fs, index + 1)

RECURSIVE ProbeFrom(_, _)
ProbeFrom(fs, index) ==
  IF index \in fs THEN <<index>> \o ProbeFrom(fs, index + 1) ELSE <<>>

\* process_audio calls split_audio: the global is set, ffmpeg runs (check=True
\* raises CalledProcessError on a non-zero exit), the chunk files are probed.
Split ==
  /\ pc = "start"
  /\ CHUNK_LENGTH' = chunk_length
  /\ files' = seg
  /\ \E returncode \in {0, 1} :
       IF returncode = 0
       THEN /\ chunks' = ProbeFrom(seg, 0)
            /\ pc' = "split"
            /\ exc' = exc
       ELSE /\ chunks' = chunks
            /\ pc' = "raised"
            /\ exc' = "CalledProcessError"
  /\ UNCHANGED <<chunk_length, seg, hung, max_workers, stage, cause, revised, offset,
                 future, collected, all_processed_text, sorted_texts, srt_content,
                 transcribe_calls, revise_calls>>
  /\ UNCHANGED codec_vars

(***************************************************************************)
(* process_chunk                                                           *)
(***************************************************************************)
\* Mutant: the offset from the default length, not from the global.
ChunkOffset_default(index) == index * DefaultChunkLength

\* offset = index * CHUNK_LENGTH
ChunkOffset(index) == index * CHUNK_LENGTH

\* Mutant: the handler returns the error text as the payload.
FailedResult_message(index) == <<index, <<"e", "r", "r">>>>

\* return (index, "")
FailedResult(index) == <<index, <<>>>>

\* Mutant: the except clause puts the chunk back on the queue.
Handler_retry(i, c) ==
  /\ stage' = [stage EXCEPT ![i] = "queued"]
  /\ cause' = [cause EXCEPT ![i] = c]
  /\ future' = future

\* Mutant: the except clause ends the worker without completing the future.
Handler_silent(i, c) ==
  /\ stage' = [stage EXCEPT ![i] = "done"]
  /\ cause' = [cause EXCEPT ![i] = c]
  /\ future' = future

\* The except clause of process_chunk after the call `c` raised: it logs and
\* returns the failed result.  The log line formats the exception inside the
\* handler; an error there leaves process_chunk by exception, which the
\* future keeps.
Handler(i, c) ==
  /\ stage' = [stage EXCEPT ![i] = "done"]
  /\ cause' = [cause EXCEPT ![i] = c]
  /\ \E logged \in BOOLEAN :
       future' = [future EXCEPT ![i] =
                    IF logged THEN [state |-> "returned", result |-> FailedResult(i)]
                    ELSE [state |-> "raised", result |-> <<>>]]

\* Mutant: the pool runs one call at a time.
SlotFree_single == InFlight = {}

\* A free worker of the pool takes the oldest queued work item and calls
\* process_chunk, which calls transcribe_audio.
SlotFree == Cardinality(InFlight) < max_workers

Start(i) ==
  /\ pc = "collecting"
  /\ i \in Indices
  /\ stage[i] = "queued"
  /\ \A j \in Indices : j < i => stage[j] # "queued"
  /\ SlotFree
  /\ stage' = [stage EXCEPT ![i] = "transcribing"]
  /\ transcribe_calls' = transcribe_calls (+) SetToBag({i})
  /\ UNCHANGED <<CHUNK_LENGTH, chunk_length, seg, hung, files, pc, exc, chunks,
                 max_workers, cause, revised, offset, future, collected,
                 all_processed_text, sorted_texts, srt_content, revise_calls>>
  /\ UNCHANGED codec_vars

\* Mutant: process_text_with_gpt is called whether or not transcribe_audio
\* returned.
TranscribeReturn_revises_anyway(i) ==
  /\ pc = "collecting"
  /\ i \in Indices
  /\ stage[i] = "transcribing"
  /\ i \notin hung
  /\ revise_calls' = revise_calls (+) SetToBag({i})
  /\ \E returns \in BOOLEAN :
       IF returns /\ i \in files
       THEN /\ stage' = [stage EXCEPT ![i] = "revising"]
            /\ UNCHANGED <<cause, future>>
       ELSE Handler(i, "transcribe")
  /\ UNCHANGED <<CHUNK_LENGTH, chunk_length, seg, hung, files, pc, exc, chunks,
                 max_workers, revised, offset, collected, all_processed_text,
                 sorted_texts, srt_content, transcribe_calls>>
  /\ UNCHANGED codec_vars

\* transcribe_audio returns or raises (it raises when the file cannot be
\* opened); on return process_text_with_gpt is called.
TranscribeReturn(i) ==
  /\ pc = "collecting"
  /\ i \in Indices
  /\ stage[i] = "transcribing"
  /\ i \notin hung
  /\ \E returns \in BOOLEAN :
       IF returns /\ i \in files
       THEN /\ stage' = [stage EXCEPT ![i] = "revising"]
            /\ revise_calls' = revise_calls (+) SetToBag({i})
            /\ UNCHANGED <<cause, future>>
       ELSE /\ Handler(i, "transcribe")
            /\ UNCHANGED revise_calls
  /\ UNCHANGED <<CHUNK_LENGTH, chunk_length, seg, hung, files, pc, exc, chunks,
                 max_workers, revised, offset, collected, all_processed_text,
                 sorted_texts, srt_content, transcribe_calls>>
  /\ UNCHANGED codec_vars

\* process_text_with_gpt returns (the stripped content) or raises; on return
\* the rest of process_chunk runs: the offset, adjust_srt, os.remove.
ReviseReturn(i) ==
  /\ pc = "collecting"
  /\ i \in Indices
  /\ stage[i] = "revising"
  /\ \E r \in {Raised} \cup {Returned(c) : c \in Contents} :
       IF ~r.ok
       THEN /\ Handler(i, "revise")
            /\ UNCHANGED <<revised, offset, files>>
       ELSE LET processed_text == Strip(r.val)
                off == ChunkOffset(i)
                adjusted == adjust_srt(processed_text, off)
            IN /\ revised' = [revised EXCEPT ![i] = processed_text]
               /\ offset' = [offset EXCEPT ![i] = off]
               /\ IF ~adjusted.ok
                  THEN /\ Handler(i, "shift")
                       /\ UNCHANGED files
                  ELSE \E removed \in BOOLEAN :
                         IF removed /\ i \in files
                         THEN /\ files' = files \ {i}
                              /\ stage' = [stage EXCEPT ![i] = "done"]
                              /\ future' = [future EXCEPT ![i] =
                                              [state |-> "returned",
                                               result |-> <<i, adjusted.val>>]]
                              /\ UNCHANGED cause
                         ELSE /\ Handler(i, "remove")
                              /\ UNCHANGED files
  /\ UNCHANGED <<CHUNK_LENGTH, chunk_length, seg, hung, pc, exc, chunks, max_workers,
                 collected, all_processed_text, sorted_texts, srt_content,
                 transcribe_calls, revise_calls>>
  /\ UNCHANGED codec_vars

(***************************************************************************)
(* process_audio                                                           *)
(***************************************************************************)
\* Mutant: no cap on the pool.
MaxWorkers_uncapped(n) == n

\* Mutant: a pool of at least one worker, so an empty job starts a pool.
MaxWorkers_atleast1(n) == IF n < 1 THEN 1 ELSE IF n < PoolCap THEN n ELSE PoolCap

\* max_workers = min(8, len(chunks))
MaxWorkers(n) == IF n < PoolCap THEN n ELSE PoolCap

\* ThreadPoolExecutor(max_workers=...) raises ValueError unless max_workers
\* is positive; otherwise every chunk is submitted, in list order.
Dispatch ==
  /\ pc = "split"
  /\ max_workers' = MaxWorkers(Len(chunks))
  /\ IF max_workers' <= 0
     THEN /\ pc' = "raised"
          /\ exc' = "ValueError"
          /\ UNCHANGED <<stage, cause, revised, offset, future>>
     ELSE /\ pc' = "collecting"
          /\ exc' = exc
          /\ stage' = [i \in Indices |-> "queued"]
          /\ cause' = [i \in Indices |-> "none"]
          /\ revised' = [i \in Indices |-> <<>>]
          /\ offset' = [i \in Indices |-> -1]
          /\ future' = [i \in Indices |-> Pending]
  /\ UNCHANGED <<CHUNK_LENGTH, chunk_length, seg, hung, files, chunks, collected,
                 all_processed_text, sorted_texts, srt_content, transcribe_calls,
                 revise_calls>>
  /\ UNCHANGED codec_vars

Yielded == {collected[k] : k \in 1..Len(collected)}

\* One iteration of the as_completed loop: a finished future is yielded; its
\* result is appended, or its exception is logged.
Collect(i) ==
  /\ pc = "collecting"
  /\ i \in Indices
  /\ future[i].state # "pending"
  /\ i \notin Yielded
  /\ collected' = Append(collected, i)
  /\ all_processed_text' =
       IF future[i].state = "returned"
       THEN Append(all_processed_text, future[i].result)
       ELSE all_processed_text
  /\ UNCHANGED <<CHUNK_LENGTH, chunk_length, seg, hung, files, pc, exc, chunks,
                 max_workers, stage, cause, revised, offset, future, sorted_texts,
                 srt_content, transcribe_calls, revise_calls>>
  /\ UNCHANGED codec_vars

\* list.sort(key=lambda x: x[0]): a stable sort by the first component.
RECURSIVE InsertByIndex(_, _)
InsertByIndex(sorted, x) ==
  IF sorted = <<>> THEN <<x>>
  ELSE IF x[1] < sorted[1][1] THEN <<x>> \o sorted
  ELSE <<sorted[1]>> \o InsertByIndex(Tail(sorted), x)

\* Mutant: the list is returned in completion order.
SortByIndex_unsorted(list) == list

RECURSIVE SortByIndex(_)
SortByIndex(list) ==
  IF list = <<>> THEN <<>>
  ELSE InsertByIndex(SortByIndex(SubSeq(list, 1, Len(list) - 1)), list[Len(list)])

\* The loop is exhausted: the list is sorted and its texts are returned.
SortReturn ==
  /\ pc = "collecting"
  /\ Len(collected) = Len(chunks)
  /\ all_processed_text' = SortByIndex(all_processed_text)
  /\ sorted_texts' = [k \in 1..Len(all_processed_text) |-> all_processed_text'[k][2]]
  /\ pc' = "returned"
  /\ UNCHANGED <<CHUNK_LENGTH, chunk_length, seg, hung, files, exc, chunks,
                 max_workers, stage, cause, revised, offset, future, collected,
                 srt_content, transcribe_calls, revise_calls>>
  /\ UNCHANGED codec_vars

(***************************************************************************)
(* The caller: the SRT text built from process_audio's return              *)
(***************************************************************************)
\* Mutant: one newline after each text.
RECURSIVE SrtContent_newline(_)
SrtContent_newline(processed_texts) ==
  IF processed_texts = <<>> THEN <<>>
  ELSE processed_texts[1] \o <<NL>> \o SrtContent_newline(Tail(processed_texts))

\* srt_content = ""; for each text: srt_content += text + "\n\n"
RECURSIVE SrtContent(_)
SrtContent(processed_texts) ==
  IF processed_texts = <<>> THEN <<>>
  ELSE processed_texts[1] \o <<NL, NL>> \o SrtContent(Tail(processed_texts))

Assemble ==
  /\ pc = "returned"
  /\ srt_content' = SrtContent(sorted_texts)
  /\ pc' = "success"
  /\ UNCHANGED <<CHUNK_LENGTH, chunk_length, seg, hung, files, exc, chunks,
                 max_workers, stage, cause, revised, offset, future, collected,
                 all_processed_text, sorted_texts, transcribe_calls, revise_calls>>
  /\ UNCHANGED codec_vars

(***************************************************************************)
(* The specification of one job                                            *)
(***************************************************************************)
\* No call of the timestamp functions has been made.
NoCall == [op |-> "none", once |-> Raised, twice |-> Raised, direct |-> Raised]

\* process_audio has not been called.
JobIdle ==
  /\ CHUNK_LENGTH = DefaultChunkLength
  /\ files = {}
  /\ pc = "start"
  /\ exc = "none"
  /\ chunks = <<>>
  /\ max_workers = 0
  /\ stage = <<>>
  /\ cause = <<>>
  /\ revised = <<>>
  /\ offset = <<>>
  /\ future = <<>>
  /\ collected = <<>>
  /\ all_processed_text = <<>>
  /\ sorted_texts = <<>>
  /\ srt_content = <<>>
  /\ transcribe_calls = EmptyBag
  /\ revise_calls = EmptyBag

Init ==
  /\ JobIdle
  /\ chunk_length \in ChunkLengths
  /\ \E sc \in Scenarios : seg = sc[1] /\ hung = sc[2]
  /\ codec_in = [text |-> <<>>, a |-> 0, b |-> 0]
  /\ codec_out = NoCall

Next ==
  \/ Split
  \/ Dispatch
  \/ \E i \in ChunkIds : Start(i)
  \/ \E i \in ChunkIds : TranscribeReturn(i)
  \/ \E i \in ChunkIds : ReviseReturn(i)
  \/ \E i \in ChunkIds : Collect(i)
  \/ SortReturn
  \/ Assemble

Spec == Init /\ [][Next]_vars

(***************************************************************************)
(* A second job in the same process                                        *)
(***************************************************************************)
\* Another job calls split_audio with the other chunk length: the assignment
\* to the module's global.  Its files and its chunks have their own names.
OtherSplit ==
  /\ \E other_length \in ChunkLengths \ {chunk_length} :
       /\ CHUNK_LENGTH # other_length
       /\ CHUNK_LENGTH' = other_length
  /\ UNCHANGED <<chunk_length, seg, hung, files, pc, exc, chunks, max_workers, stage,
                 cause, revised, offset, future, collected, all_processed_text,
                 sorted_texts, srt_content, transcribe_calls, revise_calls>>
  /\ UNCHANGED codec_vars

NextTwoJobs == Next \/ OtherSplit

SpecTwoJobs == Init /\ [][NextTwoJobs]_vars

(***************************************************************************)
(* process_audio under a fair scheduler                                    *)
(***************************************************************************)
\* process_audio calls split_audio(file_path): the default chunk length.
InitFair == Init /\ chunk_length = DefaultChunkLength

\* The threads keep running: as long as a step of the main thread or of a
\* worker is possible, one is taken.  A call of a chunk in `hung` never
\* returns, so it enables no step.
SpecFair == InitFair /\ [][Next]_vars /\ WF_vars(Next)

(***************************************************************************)
(* Properties of one job                                                   *)
(***************************************************************************)
Finished == pc \in {"returned", "success"}

\* The chunks a process_chunk invocation exists for.
Dispatched == DOMAIN stage

\* process_chunk caught an exception of transcription, revision or the shift
\* and returned the failed result.
FailedAt(k) ==
  /\ stage[k] = "done"
  /\ cause[k] \in {"transcribe", "revise", "shift"}
  /\ future[k].state = "returned"

\* process_chunk ran to its return statement.
Succeeded(j) == stage[j] = "done" /\ cause[j] = "none"

OneFailure(k) ==
  /\ FailedAt(k)
  /\ \A j \in Dispatched \ {k} : Succeeded(j) /\ revised[j] # <<>>

\* C1: when exactly chunk k fails in transcription, revision or the shift and
\* every other chunk succeeds with a non-empty revised text, process_audio
\* returns n payloads in index order 0..n-1, the k-th empty, the others not.
C1_FailedChunkIsolated ==
  Finished =>
    \A k \in Dispatched :
      OneFailure(k) =>
        /\ Len(sorted_texts) = Len(chunks)
        /\ \A p \in 1..Len(all_processed_text) : all_processed_text[p][1] = p - 1
        /\ \A j \in Dispatched : (sorted_texts[j + 1] = <<>>) <=> (j = k)

C1_Witness ==
  /\ Finished
  /\ Len(chunks) >= 2
  /\ \E k \in Dispatched : OneFailure(k)
  /\ collected # chunks

\* The chunks whose future holds a result.
WithResult == {i \in Dispatched : future[i].state = "returned"}

Rank(i) == Cardinality({j \in WithResult : j < i}) + 1

\* C2: whatever the completion order, the returned list holds the payloads of
\* the collected results by strictly ascending chunk index: position p holds
\* the payload of the p-th smallest collected index.
C2_ReturnedInIndexOrder ==
  Finished =>
    /\ Len(sorted_texts) = Cardinality(WithResult)
    /\ \A p \in 1..(Len(all_processed_text) - 1) :
         all_processed_text[p][1] < all_processed_text[p + 1][1]
    /\ \A i \in WithResult : sorted_texts[Rank(i)] = future[i].result[2]

C2_Witness ==
  /\ Finished
  /\ Len(all_processed_text) >= 2
  /\ \E p \in 1..(Len(collected) - 1) : collected[p] > collected[p + 1]
  /\ sorted_texts[1] # sorted_texts[2]

\* C3: at most min(8, n) invocations are in flight at any time.
C3_PoolBound ==
  /\ Cardinality(InFlight) <= PoolCap
  /\ Cardinality(InFlight) <= Len(chunks)

\* Eight invocations in flight while a ninth chunk waits in the queue.
C3_Witness ==
  /\ Cardinality(InFlight) = PoolCap
  /\ \E i \in Dispatched : stage[i] = "queued"

\* C4: once the process_chunk invocation of a chunk is over, the chunk's file
\* is gone, after a success and after a failure alike.
C4_ChunkFileDeleted ==
  /\ \A i \in Dispatched : future[i].state = "returned" => i \notin files
  /\ Finished => files \cap Indices = {}

\* C5: a segmentation that yields no chunk never lets process_audio return;
\* it ends in an exception, and no collaborator has been called.
C5_NoChunksIsAnError ==
  (pc # "start" /\ chunks = <<>>) =>
    /\ pc \in {"split", "raised"}
    /\ pc = "raised" => exc \in {"ValueError", "CalledProcessError"}
    /\ transcribe_calls = EmptyBag
    /\ revise_calls = EmptyBag

C5_Witness ==
  /\ pc = "raised"
  /\ exc = "ValueError"
  /\ chunks = <<>>
  /\ seg # {}

\* C6: the offset process_chunk computes for chunk i of a job segmented with
\* chunk length L is i * L.
C6_OffsetIsIndexTimesLength ==
  \A i \in Dispatched : offset[i] # -1 => offset[i] = i * chunk_length

C6_Witness ==
  /\ chunk_length = OtherChunkLength
  /\ \E i \in Dispatched : i >= 1 /\ offset[i] = i * OtherChunkLength

\* C7: a future whose result() raises still gets an entry with an empty
\* payload, so the returned list has n entries.
C7_RaisedFutureRecorded ==
  Finished =>
    /\ Len(sorted_texts) = Len(chunks)
    /\ \A i \in Dispatched :
         future[i].state = "raised" =>
           \E p \in 1..Len(all_processed_text) : all_processed_text[p] = <<i, <<>>>>

\* C8: when only the deletion of the chunk file fails, the chunk's result
\* carries the shifted revised text.
C8_CleanupFailureKeepsPayload ==
  \A i \in Dispatched :
    (stage[i] = "done" /\ cause[i] = "remove" /\ future[i].state = "returned") =>
      future[i].result = <<i, adjust_srt(revised[i], offset[i]).val>>

Separator == <<NL, NL>>

\* sep.join(texts)
RECURSIVE JoinWith(_, _)
JoinWith(texts, sep) ==
  IF texts = <<>> THEN <<>>
  ELSE IF Len(texts) = 1 THEN texts[1]
  ELSE JoinWith(SubSeq(texts, 1, Len(texts) - 1), sep) \o sep \o texts[Len(texts)]

\* C9 as stated: the artifact is the payloads in index order with one
\* separator between consecutive payloads and nothing else.
C9_SeparatedOnly == pc = "success" => srt_content = JoinWith(sorted_texts, Separator)

\* C9 as amended: the artifact is the payloads in index order, one separator
\* between consecutive payloads and one more after the last payload.
C9_SeparatedAndTerminated ==
  pc = "success" =>
    srt_content = IF sorted_texts = <<>> THEN <<>>
                  ELSE JoinWith(sorted_texts, Separator) \o Separator

C9_Witness ==
  /\ pc = "success"
  /\ Len(sorted_texts) >= 2
  /\ \E p, q \in 1..Len(sorted_texts) : sorted_texts[p] = <<>> /\ sorted_texts[q] # <<>>

(***************************************************************************)
(* The timestamp functions on their own                                    *)
(***************************************************************************)
\* The largest offset the calls are made with.
MaxShift == 3601

Offsets == {0, 1, 59, DefaultChunkLength, MaxShift}

TC_Hour == <<"0", "0", ":", "5", "9", ":", "5", "9", ",", "9", "9", "9">>

TC_Day == <<"2", "3", ":", "0", "2", ":", "0", "3", ",", "0", "0", "4">>

TC_Max == <<"9", "9", ":", "5", "9", ":", "5", "9", ",", "9", "9", "9">>

Block1 == <<"1", NL>> \o TC_5s \o Arrow \o TC_10s \o <<NL, "h", "i">>

Block2 == <<"2", NL>> \o TC_Hour \o Arrow \o TC_Day \o <<NL, "-", ">">>

\* A range line without spaces, with short fields and 75 seconds.
LooseRange ==
  <<"0", ":", "0", ":", "5", ",", "0", "-", "-", ">", "0", ":", "0", ":", "7", "5", ",", "5">>

\* A range line with two spaces on each side of "-->".
WideRange == TC_5s \o <<SP, SP, "-", "-", ">", SP, SP>> \o TC_10s

TextLoose == <<SP, "h", "i", SP, NL>> \o LooseRange

TextWide == WideRange \o <<NL, NL, SP, "x">>

CodecTexts ==
  { TC_5s, TC_Hour, TC_Day, TC_Max,
    Block1,
    Block1 \o <<NL>>,
    Block1 \o <<NL, NL>>,
    Block1 \o <<NL, NL>> \o Block2,
    <<NL, NL>> \o Block2 \o <<NL, NL>>,
    TextLoose,
    TextWide,
    <<>> }

InitCodec ==
  /\ JobIdle
  /\ chunk_length = DefaultChunkLength
  /\ seg = {}
  /\ hung = {}
  /\ codec_in \in [text : CodecTexts, a : Offsets, b : Offsets]
  /\ codec_out = NoCall

\* f(f(x, a), b): the second call is made when the first returned.
Twice(f(_, _), x, a, b) ==
  LET once == f(x, a) IN IF once.ok THEN f(once.val, b) ELSE Raised

\* shift_timestamp(ts, a), shift_timestamp(shift_timestamp(ts, a), b) and
\* shift_timestamp(ts, a + b) are evaluated.
CallShiftTimestamp ==
  /\ codec_out.op = "none"
  /\ codec_out' = [op |-> "shift_timestamp",
                   once |-> shift_timestamp(codec_in.text, codec_in.a),
                   twice |-> Twice(shift_timestamp, codec_in.text, codec_in.a, codec_in.b),
                   direct |-> shift_timestamp(codec_in.text, codec_in.a + codec_in.b)]
  /\ UNCHANGED <<codec_in, job_vars>>

\* The same three calls of adjust_srt.
CallAdjustSrt ==
  /\ codec_out.op = "none"
  /\ codec_out' = [op |-> "adjust_srt",
                   once |-> adjust_srt(codec_in.text, codec_in.a),
                   twice |-> Twice(adjust_srt, codec_in.text, codec_in.a, codec_in.b),
                   direct |-> adjust_srt(codec_in.text, codec_in.a + codec_in.b)]
  /\ UNCHANGED <<codec_in, job_vars>>

NextCodec == CallShiftTimestamp \/ CallAdjustSrt

SpecCodec == InitCodec /\ [][NextCodec]_vars

(***************************************************************************)
(* Properties of the timestamp functions                                   *)
(***************************************************************************)
\* HH:MM:SS,mmm with two-digit hours, minutes and seconds below 60.
ValidTimecode(t) ==
  /\ Len(t) = 12
  /\ t[3] = ":" /\ t[6] = ":" /\ t[9] = ","
  /\ \A k \in {1, 2, 4, 5, 7, 8, 10, 11, 12} : IsDigit(t[k])
  /\ DigitsVal(SubSeq(t, 4, 5)) < 60
  /\ DigitsVal(SubSeq(t, 7, 8)) < 60

RangeLines(text) == {k \in 1..Len(SplitLines(text)) : HasArrow(SplitLines(text)[k])}

\* Every line with "-->" is one valid timecode on each side of one "-->".
ValidRangeLines(text) ==
  \A k \in RangeLines(text) :
    LET parts == SplitArrow(SplitLines(text)[k])
    IN /\ Len(parts) = 2
       /\ ValidTimecode(Strip(parts[1]))
       /\ ValidTimecode(Strip(parts[2]))

\* The text ends with an empty line (two line terminators in a row).
EndsWithEmptyLine(text) ==
  Len(text) >= 2 /\ text[Len(text)] = NL /\ text[Len(text) - 1] = NL

Composes == codec_out.twice.ok /\ codec_out.twice = codec_out.direct

TimecodeComposes ==
  (codec_out.op = "shift_timestamp" /\ ValidTimecode(codec_in.text)) => Composes

\* C10 as stated: shifting by a and then by b is shifting by a + b, for every
\* valid timecode and for every text whose range lines hold valid timecodes.
C10_ShiftComposesOnEveryBlock ==
  /\ TimecodeComposes
  /\ (codec_out.op = "adjust_srt" /\ ValidRangeLines(codec_in.text)) => Composes

\* C10 as amended: the same, for the texts that do not end with an empty line.
C10_ShiftComposes ==
  /\ TimecodeComposes
  /\ (/\ codec_out.op = "adjust_srt"
      /\ ValidRangeLines(codec_in.text)
      /\ ~EndsWithEmptyLine(codec_in.text)) => Composes

\* Two range lines shifted twice by positive offsets, with a carry into the
\* hours.
C10_Witness ==
  /\ codec_out.op = "adjust_srt"
  /\ Cardinality(RangeLines(codec_in.text)) = 2
  /\ ValidRangeLines(codec_in.text)
  /\ ~EndsWithEmptyLine(codec_in.text)
  /\ codec_in.a = 1 /\ codec_in.b = MaxShift
  /\ Composes
  /\ codec_out.once # codec_out.direct

\* The range line is exactly `timecode --> timecode`, both timecodes valid.
CanonicalRangeLines(text) ==
  \A k \in RangeLines(text) :
    \E t1, t2 \in {Strip(p) : p \in {SplitArrow(SplitLines(text)[k])[q] : q \in 1..2}} :
      /\ ValidTimecode(t1)
      /\ ValidTimecode(t2)
      /\ SplitLines(text)[k] = t1 \o Arrow \o t2

EndsWithNewline(text) == text # <<>> /\ text[Len(text)] = NL

ZeroShift == codec_out.op = "adjust_srt" /\ codec_in.a = 0

\* C11 as stated: adjust_srt with offset 0 returns every text unchanged.
C11_ZeroShiftIsIdentity == ZeroShift => codec_out.once = Returned(codec_in.text)

\* C11 as amended: adjust_srt with offset 0 returns the text unchanged when
\* the text does not end with a line terminator and each of its range lines
\* is exactly `HH:MM:SS,mmm --> HH:MM:SS,mmm` with valid timecodes.
C11_ZeroShiftKeepsCanonicalText ==
  (ZeroShift /\ CanonicalRangeLines(codec_in.text) /\ ~EndsWithNewline(codec_in.text))
    => codec_out.once = Returned(codec_in.text)

C11_Witness ==
  /\ ZeroShift
  /\ Cardinality(RangeLines(codec_in.text)) = 2
  /\ CanonicalRangeLines(codec_in.text)
  /\ ~EndsWithNewline(codec_in.text)
  /\ codec_out.once = Returned(codec_in.text)

\* The time a valid timecode denotes, in milliseconds.
TimecodeMs(t) ==
  ((DigitsVal(SubSeq(t, 1, 2)) * 60 + DigitsVal(SubSeq(t, 4, 5))) * 60
     + DigitsVal(SubSeq(t, 7, 8))) * MsPerSecond + DigitsVal(SubSeq(t, 10, 12))

\* out is `H..H:MM:SS,mmm` with at least two hour digits, minutes and
\* seconds in 0..59, and denotes total_ms.
CanonicalFor(out, total_ms) ==
  LET n == Len(out)
  IN /\ n >= 12
     /\ out[n - 3] = "," /\ out[n - 6] = ":" /\ out[n - 9] = ":"
     /\ AllDigits(SubSeq(out, 1, n - 10))
     /\ AllDigits(SubSeq(out, n - 8, n - 7))
     /\ AllDigits(SubSeq(out, n - 5, n - 4))
     /\ AllDigits(SubSeq(out, n - 2, n))
     /\ DigitsVal(SubSeq(out, n - 8, n - 7)) < 60
     /\ DigitsVal(SubSeq(out, n - 5, n - 4)) < 60
     /\ (n > 12 => out[1] # "0")
     /\ ((DigitsVal(SubSeq(out, 1, n - 10)) * 60 + DigitsVal(SubSeq(out, n - 8, n - 7))) * 60
           + DigitsVal(SubSeq(out, n - 5, n - 4))) * MsPerSecond
          + DigitsVal(SubSeq(out, n - 2, n)) = total_ms

\* 00:06:45,000
TC_405s == <<"0", "0", ":", "0", "6", ":", "4", "5", ",", "0", "0", "0">>

LinesOf(text) == SplitLines(text)

\* The lines of `out` are those of `text`, in order, with every line that
\* has no "-->" unchanged.
KeepsLines(text, out) ==
  /\ Len(LinesOf(out)) = Len(LinesOf(text))
  /\ \A k \in 1..Len(LinesOf(text)) :
       /\ HasArrow(LinesOf(out)[k]) <=> HasArrow(LinesOf(text)[k])
       /\ ~HasArrow(LinesOf(text)[k]) => LinesOf(out)[k] = LinesOf(text)[k]

\* The last line of the text is empty.
LastLineEmpty(text) == LinesOf(text) # <<>> /\ LinesOf(text)[Len(LinesOf(text))] = <<>>

\* C18 as stated: for every offset adjust_srt keeps the number and order of
\* the lines and returns every line without "-->" unchanged.
C18_KeepsEveryLine ==
  (codec_out.op = "adjust_srt" /\ codec_out.once.ok)
    => KeepsLines(codec_in.text, codec_out.once.val)

\* C18 as amended: the same, for the texts whose last line is not empty.
C18_KeepsLinesButLastEmpty ==
  (codec_out.op = "adjust_srt" /\ codec_out.once.ok /\ ~LastLineEmpty(codec_in.text))
    => KeepsLines(codec_in.text, codec_out.once.val)

\* A text with a blank line inside, a line with blanks around its words and
\* a rewritten range line.
C18_Witness ==
  /\ codec_out.op = "adjust_srt"
  /\ codec_in.text = TextWide
  /\ codec_in.a = MaxShift
  /\ codec_out.once.ok
  /\ KeepsLines(codec_in.text, codec_out.once.val)
  /\ codec_out.once.val # codec_in.text

\* The smallest index with no chunk file.
FirstGap(fs) == CHOOSE k \in 0..Cardinality(fs) : k \notin fs /\ (0..(k - 1)) \subseteq fs

\* C17: split_audio returns the indices 0..k-1 in increasing order, k the
\* smallest index whose file is missing; a file above the first gap is never
\* handed to process_chunk and never deleted.
C17_ChunksUpToFirstGap ==
  (pc # "start" /\ exc # "CalledProcessError") =>
    /\ chunks = [p \in 1..FirstGap(seg) |-> p - 1]
    /\ \A f \in seg :
         f > FirstGap(seg) =>
           /\ f \in files
           /\ f \notin Dispatched
           /\ ~BagIn(f, transcribe_calls)

\* Files 0 and 2 exist: the job is chunk 0 alone, and file 2 is still there
\* after chunk 0 was processed and deleted.
C17_Witness ==
  /\ pc = "returned"
  /\ seg = {0, 2}
  /\ chunks = <<0>>
  /\ files = {2}

\* `outl` is `start --> end` with the canonical timecodes of the two sides of
\* `line` plus `off` seconds.
ShiftedLine(line, off, outl) ==
  /\ HasArrow(line)
  /\ HasArrow(outl)
  /\ LET pin == SplitArrow(line)
         pout == SplitArrow(outl)
     IN /\ Len(pout) = 2
        /\ outl = Strip(pout[1]) \o Arrow \o Strip(pout[2])
        /\ \A q \in 1..2 :
             /\ ValidTimecode(Strip(pin[q]))
             /\ CanonicalFor(Strip(pout[q]),
                             TimecodeMs(Strip(pin[q])) + off * MsPerSecond)

\* `out` is the whole of `text`, every range line shifted by `off`.
FullyShifted(text, off, out) ==
  /\ Len(LinesOf(out)) = Len(LinesOf(text))
  /\ \A k \in 1..Len(LinesOf(text)) :
       IF HasArrow(LinesOf(text)[k])
       THEN ShiftedLine(LinesOf(text)[k], off, LinesOf(out)[k])
       ELSE LinesOf(out)[k] = LinesOf(text)[k]

Payload(i) == future[i].result[2]

\* C20: the payload process_chunk returns for a chunk is empty or the whole
\* revised text with every range line shifted by the chunk's offset; a text
\* with a range line that cannot be shifted yields the empty payload.
C20_PayloadEmptyOrFullyShifted ==
  \A i \in Dispatched :
    future[i].state = "returned" =>
      \/ Payload(i) = <<>>
      \/ FullyShifted(revised[i], offset[i], Payload(i))

\* Chunk 0 got a text whose second range line cannot be parsed and returned
\* the empty payload; chunk 1 returned its shifted text.
C20_Witness ==
  /\ Dispatched = {0, 1}
  /\ FailedAt(0) /\ cause[0] = "shift" /\ Payload(0) = <<>>
  /\ Cardinality(RangeLines(revised[0])) = 2
  /\ Succeeded(1) /\ Payload(1) # <<>> /\ Payload(1) # revised[1]
  /\ FullyShifted(revised[1], offset[1], Payload(1))

\* C15: process_chunk is invoked once per chunk and never again, so
\* transcription is called at most once per chunk, exactly once per chunk by
\* the time process_audio returns, and no index is collected twice.
C15_EachChunkOnce ==
  /\ \A i \in ChunkIds : CopiesIn(i, transcribe_calls) <= 1
  /\ \A i \in ChunkIds : BagIn(i, transcribe_calls) => i \in Indices
  /\ Finished => \A i \in Indices : CopiesIn(i, transcribe_calls) = 1
  /\ \A p, q \in 1..Len(collected) : p # q => collected[p] # collected[q]
  /\ \A p, q \in 1..Len(all_processed_text) :
       p # q => all_processed_text[p][1] # all_processed_text[q][1]

\* Two chunks, the first failed in transcription and was not tried again.
C15_Witness ==
  /\ Finished
  /\ Dispatched = {0, 1}
  /\ FailedAt(0) /\ cause[0] = "transcribe"
  /\ CopiesIn(0, transcribe_calls) = 1
  /\ Len(all_processed_text) = 2

Deleted(i) == i \in Indices /\ i \notin files

\* C16: per chunk the order is transcription, revision, shift, deletion:
\* revision is called only once transcription has returned, never after it
\* failed; the offset is computed only after revision was called; the file is
\* there while the chunk is queued or in transcription and is deleted only
\* after the shift.
C16_StepsInOrder ==
  \A i \in Dispatched :
    /\ BagIn(i, revise_calls) =>
         /\ CopiesIn(i, transcribe_calls) = 1
         /\ stage[i] \in {"revising", "done"}
         /\ cause[i] # "transcribe"
    /\ offset[i] # -1 => BagIn(i, revise_calls) /\ stage[i] = "done"
    /\ stage[i] \in {"queued", "transcribing"} => i \in files
    /\ Deleted(i) => offset[i] # -1 /\ Succeeded(i)

\* One chunk went through all four steps, the other failed in transcription.
C16_Witness ==
  /\ Dispatched = {0, 1}
  /\ Deleted(1) /\ BagIn(1, revise_calls) /\ offset[1] # -1
  /\ cause[0] = "transcribe" /\ ~BagIn(0, revise_calls) /\ 0 \in files

\* C14: with another job of a different chunk length in the process, every
\* chunk i of this job is still shifted by i times this job's chunk length.
C14_OffsetsUndisturbed ==
  \A i \in Dispatched :
    /\ offset[i] # -1 => offset[i] = i * chunk_length
    /\ Succeeded(i) => Returned(Payload(i)) = adjust_srt(revised[i], i * chunk_length)

\* process_chunk has returned or raised for chunk i.
Processed(i) == i \in Dispatched /\ stage[i] = "done"

\* Every call of every chunk of the job returns or raises.
AllCallsReturn == hung \cap Indices = {}

\* A chunk is still queued only while every slot is held by a call that
\* never returns.
QueuedOnlyBehindHung ==
  \A i \in Dispatched :
    stage[i] = "queued" => InFlight \subseteq hung /\ Cardinality(InFlight) = max_workers

HungCalls == hung \cap Indices

\* C19: a call that never returns holds one slot: with fewer hung calls than
\* slots every chunk whose calls return is processed, and process_audio does
\* not return while a call of one of its chunks hangs.
C19_HungCallHoldsOneSlot ==
  /\ [](HungCalls # {} => ~Finished)
  /\ (pc = "collecting" /\ Cardinality(HungCalls) < max_workers)
       ~> (\A i \in Indices \ hung : Processed(i))

\* Chunk 0 hangs in transcription, chunk 1 has been processed and collected,
\* and process_audio is still in its loop.
C19_Witness ==
  /\ pc = "collecting"
  /\ HungCalls = {0}
  /\ max_workers = 2
  /\ stage[0] = "transcribing"
  /\ stage[1] = "done"
  /\ collected = <<1>>

====
